---------------------------- MODULE Spec2Model ----------------------------
(***************************************************************************)
(* Model of scripts/overlay_symbols.py: the Gregorian computus, the        *)
(* movable observances derived from it, the fast/abstinence rule cascade,  *)
(* the title normalisation and the event loop of main.                     *)
(*                                                                         *)
(* A date is the triple <<year, month, day>> that datetime.date stores;    *)
(* date +/- timedelta goes through the proleptic Gregorian ordinal and     *)
(* back, as datetime does.  A title is a sequence of code points, each     *)
(* named by a string: letters and punctuation by themselves, the marker    *)
(* code points by CROSS (U+271D), VS16 (U+FE0F), NOENTRY (U+26D4) and FISH *)
(* (U+1F41F), the tab by TAB, the single guillemets by RSAQUO and RAQUO.   *)
(***************************************************************************)
EXTENDS Integers, Sequences, FiniteSets, TLC

VARIABLES
    pc,                    \* "loop", "done": main; "call", "return": a direct call
    MARK_SUNDAYS_AS_HOLY,  \* the CONFIG switch (False as shipped, line 69)
    cal,                   \* main: the components of the parsed calendar
    input,                 \* main: the components as they were read
    pos,                   \* main: the index of the next component of the walk
    calls,                 \* main: the calls of build_prefix made so far
    out,                   \* main: what was written to out_path
    arg,                   \* a direct call's argument
    res                    \* a direct call's result

mainvars == <<cal, input, pos, calls, out>>

vars == <<pc, MARK_SUNDAYS_AS_HOLY, cal, input, pos, calls, out, arg, res>>

-----------------------------------------------------------------------------
(* Bounds of the model. *)

FirstYear == 1900

LastYear == 2100

MaxDecor == 3

MaxEvents == 3

Years == FirstYear..LastYear

-----------------------------------------------------------------------------
(* datetime.date and datetime.timedelta, as far as the script uses them. *)

is_leap(y) == y % 4 = 0 /\ (y % 100 # 0 \/ y % 400 = 0)

DAYS_BEFORE_MONTH == <<0, 31, 59, 90, 120, 151, 181, 212, 243, 273, 304, 334>>

DAYS_IN_MONTH == <<31, 28, 31, 30, 31, 30, 31, 31, 30, 31, 30, 31>>

days_in_month(y, m) == IF m = 2 /\ is_leap(y) THEN 29 ELSE DAYS_IN_MONTH[m]

days_before_year(y) ==
    LET y1 == y - 1
    IN  y1 * 365 + (y1 \div 4) - (y1 \div 100) + (y1 \div 400)

days_before_month(y, m) ==
    DAYS_BEFORE_MONTH[m] + (IF m > 2 /\ is_leap(y) THEN 1 ELSE 0)

(* date(y, m, d) *)
date(y, m, d) == <<y, m, d>>

toordinal(dt) == days_before_year(dt[1]) + days_before_month(dt[1], dt[2]) + dt[3]

fromordinal(ord) ==
    LET n0   == ord - 1
        n400 == n0 \div 146097
        r400 == n0 % 146097
        n100 == r400 \div 36524
        r100 == r400 % 36524
        n4   == r100 \div 1461
        r4   == r100 % 1461
        n1   == r4 \div 365
        n    == r4 % 365
        year == n400 * 400 + 1 + n100 * 100 + n4 * 4 + n1
    IN  IF n1 = 4 \/ n100 = 4
        THEN <<year - 1, 12, 31>>
        ELSE LET leapyear == n1 = 3 /\ (n4 # 24 \/ n100 = 3)
                 month0   == (n + 50) \div 32
                 prec0    == DAYS_BEFORE_MONTH[month0]
                             + (IF month0 > 2 /\ leapyear THEN 1 ELSE 0)
                 month    == IF prec0 > n THEN month0 - 1 ELSE month0
                 prec     == IF prec0 > n
                             THEN prec0 - (DAYS_IN_MONTH[month]
                                           + (IF month = 2 /\ leapyear THEN 1 ELSE 0))
                             ELSE prec0
             IN  <<year, month, n - prec + 1>>

(* d + timedelta(days=n); n may be negative *)
plus_days(dt, n) == fromordinal(toordinal(dt) + n)

(* d.weekday(): Monday = 0 ... Sunday = 6 *)
weekday(dt) == (toordinal(dt) + 6) % 7

(* date_le with < for <=: a window that loses its last day. *)
date_lt(a, b) ==
    \/ a[1] < b[1]
    \/ a[1] = b[1] /\ a[2] < b[2]
    \/ a[1] = b[1] /\ a[2] = b[2] /\ a[3] < b[3]

(* a <= b on dates: the comparison of the (year, month, day) triples *)
date_le(a, b) ==
    \/ a[1] < b[1]
    \/ a[1] = b[1] /\ a[2] < b[2]
    \/ a[1] = b[1] /\ a[2] = b[2] /\ a[3] <= b[3]

(* dt is a date of the calendar: what the date constructor accepts. *)
is_date(dt) == dt[2] \in 1..12 /\ dt[3] \in 1..days_in_month(dt[1], dt[2])

-----------------------------------------------------------------------------
(* DATE MATH (fast/abstinence) *)

(* easter_gregorian without the correction m of the late full moons. *)
easter_gregorian_no_m(y) ==
    LET a == y % 19
        b == y \div 100
        c == y % 100
        d == b \div 4
        e == b % 4
        f == (b + 8) \div 25
        g == (b - f + 1) \div 3
        h == (19 * a + b - d - g + 15) % 30
        i == c \div 4
        k == c % 4
        l == (32 + 2 * e + 2 * i - h - k) % 7
        month == (h + l + 114) \div 31
        day == ((h + l + 114) % 31) + 1
    IN  date(y, month, day)

(* Anonymous Gregorian computus (Meeus/Jones/Butcher). *)
easter_gregorian(y) ==
    LET a == y % 19
        b == y \div 100
        c == y % 100
        d == b \div 4
        e == b % 4
        f == (b + 8) \div 25
        g == (b - f + 1) \div 3
        h == (19 * a + b - d - g + 15) % 30
        i == c \div 4
        k == c % 4
        l == (32 + 2 * e + 2 * i - h - k) % 7
        m == (a + 11 * h + 22 * l) \div 451
        month == (h + l - 7 * m + 114) \div 31
        day == ((h + l - 7 * m + 114) % 31) + 1
    IN  date(y, month, day)

(* is_sunday with the isoweekday number of Sunday, which weekday() never
   returns. *)
is_sunday_iso(d) == weekday(d) = 7

is_sunday(d) == weekday(d) = 6

is_friday(d) == weekday(d) = 4

ash_wednesday(y) == plus_days(easter_gregorian(y), -46)

pentecost_sunday(y) == plus_days(easter_gregorian(y), 49)

(* ember_cluster with the Friday listed twice. *)
ember_cluster_friday_twice(wed) == {wed, plus_days(wed, 2), plus_days(wed, 2)}

(* The three dates one out.update call of ember_days adds. *)
ember_cluster(wed) == {wed, plus_days(wed, 2), plus_days(wed, 3)}

(* Advent ember days: first Wed on/after Dec 13, then Fri/Sat. *)
advent_embers(y) ==
    LET dec13 == date(y, 12, 13)
        wd    == plus_days(dec13, (2 - weekday(dec13)) % 7)
    IN  ember_cluster(wd)

(* Lent ember days: Wed/Fri/Sat after 1st Sunday of Lent. *)
lent_embers(y) ==
    LET aw             == ash_wednesday(y)
        first_lent_sun == plus_days(aw, (6 - weekday(aw)) % 7)
        wed_after      == plus_days(first_lent_sun, 3)
    IN  ember_cluster(wed_after)

(* Pentecost ember days: Wed/Fri/Sat in Pentecost week. *)
pentecost_embers(y) ==
    LET p   == pentecost_sunday(y)
        wed == plus_days(p, 3)
    IN  ember_cluster(wed)

(* september_embers with the first Sunday found as if Monday were 1. *)
september_embers_iso(y) ==
    LET sept1     == date(y, 9, 1)
        first_sun == plus_days(sept1, (7 - weekday(sept1)) % 7)
        third_sun == plus_days(first_sun, 14)
        wed       == plus_days(third_sun, 3)
    IN  ember_cluster(wed)

(* September ember days: after 3rd Sunday of September. *)
september_embers(y) ==
    LET sept1     == date(y, 9, 1)
        first_sun == plus_days(sept1, (6 - weekday(sept1)) % 7)
        third_sun == plus_days(first_sun, 14)
        wed       == plus_days(third_sun, 3)
    IN  ember_cluster(wed)

(* The four out.update calls of ember_days, in order. *)
ember_updates(y) ==
    <<advent_embers(y), lent_embers(y), pentecost_embers(y), september_embers(y)>>

ember_days(y) ==
    advent_embers(y) \cup lent_embers(y) \cup pentecost_embers(y)
        \cup september_embers(y)

vigil_days(y) ==
    LET p == pentecost_sunday(y)
    IN  { date(y, 12, 24), date(y, 8, 14), date(y, 10, 31),
          plus_days(p, -1), date(y, 6, 28) }

(* One "if cond: fast = True; abst = True" of penitential_marks, applied to
   the <<fast, abst>> it finds. *)
fast_and_abstain(cond, marks) == IF cond THEN <<TRUE, TRUE>> ELSE marks

(* abstain without its assignment: the Friday rule left out. *)
abstain_never(cond, marks) == marks

(* "if is_friday(d): abst = True", applied to the <<fast, abst>> it finds. *)
abstain(cond, marks) == IF cond THEN <<marks[1], TRUE>> ELSE marks

(* Returns <<fast, abstinence>>. *)
penitential_marks(d) ==
    LET y              == d[1]
        e              == easter_gregorian(y)
        aw             == ash_wednesday(y)
        holy_saturday  == plus_days(e, -1)
        in_lent_window == date_le(aw, d) /\ date_le(d, holy_saturday)
        embers         == ember_days(y)
        vigils         == vigil_days(y)
        marks0         == <<FALSE, FALSE>>
        marks1         == abstain(is_friday(d), marks0)
        marks2         == fast_and_abstain(in_lent_window /\ ~is_sunday(d), marks1)
        marks3         == fast_and_abstain(d \in embers /\ ~is_sunday(d), marks2)
        marks4         == fast_and_abstain(d \in vigils /\ ~is_sunday(d), marks3)
    IN  marks4

-----------------------------------------------------------------------------
(* CONFIG *)

SYM_HOLYDAY == <<"CROSS", "VS16">>

SYM_FAST == <<"NOENTRY">>

SYM_ABST == <<"FISH">>

(* Traditional holy days list, matched on the normalized SUMMARY text. *)
HOLY_DAYS_1962_TITLES ==
    {
      (* circumcision of our lord *)
      <<"c", "i", "r", "c", "u", "m", "c", "i", "s", "i", "o", "n", " ",
        "o", "f", " ", "o", "u", "r", " ", "l", "o", "r", "d">>,
      (* epiphany of our lord *)
      <<"e", "p", "i", "p", "h", "a", "n", "y", " ", "o", "f", " ", "o",
        "u", "r", " ", "l", "o", "r", "d">>,
      (* the epiphany of our lord *)
      <<"t", "h", "e", " ", "e", "p", "i", "p", "h", "a", "n", "y", " ",
        "o", "f", " ", "o", "u", "r", " ", "l", "o", "r", "d">>,
      (* st joseph spouse of the blessed virgin mary *)
      <<"s", "t", " ", "j", "o", "s", "e", "p", "h", " ", "s", "p", "o",
        "u", "s", "e", " ", "o", "f", " ", "t", "h", "e", " ", "b", "l",
        "e", "s", "s", "e", "d", " ", "v", "i", "r", "g", "i", "n", " ",
        "m", "a", "r", "y">>,
      (* st joseph *)
      <<"s", "t", " ", "j", "o", "s", "e", "p", "h">>,
      (* st. joseph *)
      <<"s", "t", ".", " ", "j", "o", "s", "e", "p", "h">>,
      (* ascension of our lord *)
      <<"a", "s", "c", "e", "n", "s", "i", "o", "n", " ", "o", "f", " ",
        "o", "u", "r", " ", "l", "o", "r", "d">>,
      (* the ascension of our lord *)
      <<"t", "h", "e", " ", "a", "s", "c", "e", "n", "s", "i", "o", "n",
        " ", "o", "f", " ", "o", "u", "r", " ", "l", "o", "r", "d">>,
      (* corpus christi *)
      <<"c", "o", "r", "p", "u", "s", " ", "c", "h", "r", "i", "s", "t",
        "i">>,
      (* ss peter and paul apostles *)
      <<"s", "s", " ", "p", "e", "t", "e", "r", " ", "a", "n", "d", " ",
        "p", "a", "u", "l", " ", "a", "p", "o", "s", "t", "l", "e", "s">>,
      (* ss. peter and paul *)
      <<"s", "s", ".", " ", "p", "e", "t", "e", "r", " ", "a", "n", "d",
        " ", "p", "a", "u", "l">>,
      (* saints peter and paul *)
      <<"s", "a", "i", "n", "t", "s", " ", "p", "e", "t", "e", "r", " ",
        "a", "n", "d", " ", "p", "a", "u", "l">>,
      (* st. peter and st. paul *)
      <<"s", "t", ".", " ", "p", "e", "t", "e", "r", " ", "a", "n", "d",
        " ", "s", "t", ".", " ", "p", "a", "u", "l">>,
      (* st peter and st paul *)
      <<"s", "t", " ", "p", "e", "t", "e", "r", " ", "a", "n", "d", " ",
        "s", "t", " ", "p", "a", "u", "l">>,
      (* assumption of the blessed virgin mary *)
      <<"a", "s", "s", "u", "m", "p", "t", "i", "o", "n", " ", "o", "f",
        " ", "t", "h", "e", " ", "b", "l", "e", "s", "s", "e", "d", " ",
        "v", "i", "r", "g", "i", "n", " ", "m", "a", "r", "y">>,
      (* the assumption of the blessed virgin mary *)
      <<"t", "h", "e", " ", "a", "s", "s", "u", "m", "p", "t", "i", "o",
        "n", " ", "o", "f", " ", "t", "h", "e", " ", "b", "l", "e", "s",
        "s", "e", "d", " ", "v", "i", "r", "g", "i", "n", " ", "m", "a",
        "r", "y">>,
      (* assumption *)
      <<"a", "s", "s", "u", "m", "p", "t", "i", "o", "n">>,
      (* all saints *)
      <<"a", "l", "l", " ", "s", "a", "i", "n", "t", "s">>,
      (* all saints day *)
      <<"a", "l", "l", " ", "s", "a", "i", "n", "t", "s", " ", "d", "a",
        "y">>,
      (* immaculate conception of the blessed virgin mary *)
      <<"i", "m", "m", "a", "c", "u", "l", "a", "t", "e", " ", "c", "o",
        "n", "c", "e", "p", "t", "i", "o", "n", " ", "o", "f", " ", "t",
        "h", "e", " ", "b", "l", "e", "s", "s", "e", "d", " ", "v", "i",
        "r", "g", "i", "n", " ", "m", "a", "r", "y">>,
      (* the immaculate conception *)
      <<"t", "h", "e", " ", "i", "m", "m", "a", "c", "u", "l", "a", "t",
        "e", " ", "c", "o", "n", "c", "e", "p", "t", "i", "o", "n">>,
      (* immaculate conception *)
      <<"i", "m", "m", "a", "c", "u", "l", "a", "t", "e", " ", "c", "o",
        "n", "c", "e", "p", "t", "i", "o", "n">>,
      (* nativity of our lord *)
      <<"n", "a", "t", "i", "v", "i", "t", "y", " ", "o", "f", " ", "o",
        "u", "r", " ", "l", "o", "r", "d">>,
      (* christmas *)
      <<"c", "h", "r", "i", "s", "t", "m", "a", "s">>
    }

-----------------------------------------------------------------------------
(* SUMMARY NORMALIZATION *)

(* The code points \s matches and str.strip() removes. *)
WHITESPACE == {" ", "TAB"}

UPPERCASE == <<"A", "B", "C", "D", "E", "F", "G", "H", "I", "J", "K", "L", "M",
               "N", "O", "P", "Q", "R", "S", "T", "U", "V", "W", "X", "Y", "Z">>

LOWERCASE == <<"a", "b", "c", "d", "e", "f", "g", "h", "i", "j", "k", "l", "m",
               "n", "o", "p", "q", "r", "s", "t", "u", "v", "w", "x", "y", "z">>

(* s.lstrip(chars) *)
lstrip(s, chars) ==
    LET keep == {i \in 1..Len(s) : s[i] \notin chars}
    IN  IF keep = {} THEN <<>>
        ELSE SubSeq(s, CHOOSE i \in keep : \A j \in keep : i <= j, Len(s))

(* s.rstrip(chars) *)
rstrip(s, chars) ==
    LET keep == {i \in 1..Len(s) : s[i] \notin chars}
    IN  IF keep = {} THEN <<>>
        ELSE SubSeq(s, 1, CHOOSE i \in keep : \A j \in keep : j <= i)

(* s.strip() *)
strip(s) == rstrip(lstrip(s, WHITESPACE), WHITESPACE)

(* s.lower() *)
lower(s) ==
    [i \in 1..Len(s) |->
        IF \E k \in 1..26 : UPPERCASE[k] = s[i]
        THEN LOWERCASE[CHOOSE k \in 1..26 : UPPERCASE[k] = s[i]]
        ELSE s[i]]

(* re.sub(r"\s+", " ", s) *)
collapse_spaces(s) ==
    LET F[i \in 0..Len(s)] ==
            IF i = 0 THEN <<>>
            ELSE IF s[i] \in WHITESPACE
                 THEN IF i > 1 /\ s[i - 1] \in WHITESPACE
                      THEN F[i - 1]
                      ELSE Append(F[i - 1], " ")
                 ELSE Append(F[i - 1], s[i])
    IN  F[Len(s)]

(* Where the match of ^\s*(SYM_HOLYDAY|SYM_FAST|SYM_ABST|\s)+\s* ends: the
   index of the first code point after the leading run of markers and
   whitespace.  The match is that whole run (when the group cannot start
   after the leading whitespace, \s* gives one code point back to it), and
   there is no match, so nothing is replaced, when the run is empty. *)
sym_run_end(s) ==
    LET E[i \in 1..Len(s) + 1] ==
            IF i > Len(s) THEN i
            ELSE IF s[i] \in WHITESPACE THEN E[i + 1]
            ELSE IF /\ s[i] = SYM_HOLYDAY[1]
                    /\ i + 1 <= Len(s)
                    /\ s[i + 1] = SYM_HOLYDAY[2] THEN E[i + 2]
            ELSE IF s[i] = SYM_FAST[1] \/ s[i] = SYM_ABST[1] THEN E[i + 1]
            ELSE i
    IN  E[1]

(* SYM_STRIP_RE.sub("", s) *)
SYM_STRIP_RE_sub(s) == SubSeq(s, sym_run_end(s), Len(s))

normalize_title(summary) ==
    LET s0          == strip(summary)
        s           == strip(SYM_STRIP_RE_sub(s0))
        s_for_match == strip(lstrip(s, {"RSAQUO", "RAQUO"}))
    IN  lower(collapse_spaces(s_for_match))

(* strip_existing_symbols without the substitution. *)
strip_existing_symbols_kept(summary) == strip(summary)

strip_existing_symbols(summary) == strip(SYM_STRIP_RE_sub(strip(summary)))

(* build_prefix with the fast and abstinence markers in the other order. *)
build_prefix_abst_first(is_holy, is_fast, is_abst) ==
    LET p0 == <<>>
        p1 == IF is_holy THEN p0 \o SYM_HOLYDAY ELSE p0
        p2 == IF is_abst THEN p1 \o SYM_ABST ELSE p1
        p3 == IF is_fast THEN p2 \o SYM_FAST ELSE p2
    IN  p3

build_prefix(is_holy, is_fast, is_abst) ==
    LET p0 == <<>>
        p1 == IF is_holy THEN p0 \o SYM_HOLYDAY ELSE p0
        p2 == IF is_fast THEN p1 \o SYM_FAST ELSE p1
        p3 == IF is_abst THEN p2 \o SYM_ABST ELSE p2
    IN  p3

-----------------------------------------------------------------------------
(* Direct calls of the pure functions: arg is the call, res its result. *)

NoCall == [fn |-> "none"]

NoResult == [fn |-> "none"]

NotWritten == [written |-> FALSE]

MainIdle ==
    /\ cal = <<>> /\ input = <<>> /\ pos = 0 /\ calls = <<>> /\ out = NotWritten
    /\ MARK_SUNDAYS_AS_HOLY = FALSE

InitYear ==
    /\ pc = "call"
    /\ \E y \in Years : arg = [fn |-> "year", y |-> y]
    /\ res = NoResult
    /\ MainIdle

CallEaster ==
    /\ pc = "call" /\ arg.fn = "year"
    /\ res' = [fn |-> "easter_gregorian", val |-> easter_gregorian(arg.y)]
    /\ pc' = "return"
    /\ UNCHANGED <<mainvars, arg, MARK_SUNDAYS_AS_HOLY>>

CallEmberDays ==
    /\ pc = "call" /\ arg.fn = "year"
    /\ res' = [fn |-> "ember_days", val |-> ember_days(arg.y),
               updates |-> ember_updates(arg.y)]
    /\ pc' = "return"
    /\ UNCHANGED <<mainvars, arg, MARK_SUNDAYS_AS_HOLY>>

CallVigilDays ==
    /\ pc = "call" /\ arg.fn = "year"
    /\ res' = [fn |-> "vigil_days", val |-> vigil_days(arg.y)]
    /\ pc' = "return"
    /\ UNCHANGED <<mainvars, arg, MARK_SUNDAYS_AS_HOLY>>

NextYear == CallEaster \/ CallEmberDays \/ CallVigilDays

SpecYear == InitYear /\ [][NextYear]_vars

InitDate ==
    /\ pc = "call"
    /\ \E y \in Years, m \in 1..12, d \in 1..31 :
          /\ is_date(date(y, m, d))
          /\ arg = [fn |-> "date", d |-> date(y, m, d)]
    /\ res = NoResult
    /\ MainIdle

CallPenitentialMarks ==
    /\ pc = "call" /\ arg.fn = "date"
    /\ res' = [fn |-> "penitential_marks", val |-> penitential_marks(arg.d)]
    /\ pc' = "return"
    /\ UNCHANGED <<mainvars, arg, MARK_SUNDAYS_AS_HOLY>>

NextDate == CallPenitentialMarks

SpecDate == InitDate /\ [][NextDate]_vars

-----------------------------------------------------------------------------
(* main: the walk over the VEVENT components. *)

Absent == [present |-> FALSE]

(* A DTSTART property: a date (VALUE=DATE) or a datetime, whose date is ymd. *)
DtStart(is_datetime, ymd) ==
    [present |-> TRUE, is_datetime |-> is_datetime, ymd |-> ymd]

Summary(text) == [present |-> TRUE, text |-> text]

(* str(component.get("SUMMARY", "")) *)
get_summary(component) ==
    IF component.summary.present THEN component.summary.text ELSE <<>>

(* holy_override left out. *)
holy_override_none(is_holy, marks) == marks

(* Traditional dispensation: Holy Days override penance markings. *)
holy_override(is_holy, marks) ==
    IF is_holy THEN <<FALSE, FALSE>> ELSE marks

(* f"{prefix} {base}" when the prefix is not empty, base otherwise *)
new_summary(prefix, base) ==
    IF prefix # <<>> THEN prefix \o <<" ">> \o base ELSE base

(* Lines 257-259: the holy-day flag of a title on date d. *)
is_holy_day(match_key, d, mark_sundays) ==
    \/ match_key \in HOLY_DAYS_1962_TITLES
    \/ mark_sundays /\ is_sunday(d)

(* Lines 267-271: the call of build_prefix and the SUMMARY written. *)
rewritten(is_holy, marks, base) ==
    [is_holy |-> is_holy, fast |-> marks[1], abst |-> marks[2],
     summary |-> new_summary(build_prefix(is_holy, marks[1], marks[2]), base)]

(* Lines 261-265: the marks of date d after the holy-day override. *)
classified(is_holy, d, base) ==
    rewritten(is_holy, holy_override(is_holy, penitential_marks(d)), base)

(* The locals of one iteration over a component that has a DTSTART, on the
   stripped summary: the flags passed to build_prefix and the SUMMARY set. *)
main_body(d, summary, mark_sundays) ==
    classified(is_holy_day(normalize_title(summary), d, mark_sundays), d,
               strip_existing_symbols(summary))

(* d is dt.date() for a datetime and dt itself for a date. *)
main_locals(component, mark_sundays) ==
    main_body(component.dtstart.ymd, strip(get_summary(component)), mark_sundays)

(* The effect of one iteration whose locals are l. *)
Rewrite(l) ==
    /\ calls' = Append(calls, [idx |-> pos, is_holy |-> l.is_holy,
                               is_fast |-> l.fast, is_abst |-> l.abst])
    /\ cal' = [cal EXCEPT ![pos].summary = Summary(l.summary)]

(* SkipEvent with break for continue: the walk ends at the event. *)
SkipEventBreaks ==
    /\ pc = "loop" /\ pos <= Len(cal)
    /\ ~cal[pos].dtstart.present
    /\ pos' = Len(cal) + 1
    /\ UNCHANGED <<pc, MARK_SUNDAYS_AS_HOLY, cal, input, calls, out, arg, res>>

(* if not dtstart: continue *)
SkipEvent ==
    /\ pc = "loop" /\ pos <= Len(cal)
    /\ ~cal[pos].dtstart.present
    /\ pos' = pos + 1
    /\ UNCHANGED <<pc, MARK_SUNDAYS_AS_HOLY, cal, input, calls, out, arg, res>>

RewriteEvent ==
    /\ pc = "loop" /\ pos <= Len(cal)
    /\ cal[pos].dtstart.present
    /\ Rewrite(main_locals(cal[pos], MARK_SUNDAYS_AS_HOLY))
    /\ pos' = pos + 1
    /\ UNCHANGED <<pc, MARK_SUNDAYS_AS_HOLY, input, out, arg, res>>

(* Path(out_path).write_bytes(cal.to_ical()) *)
WriteOutput ==
    /\ pc = "loop" /\ pos > Len(cal)
    /\ out' = [written |-> TRUE, components |-> cal]
    /\ pc' = "done"
    /\ UNCHANGED <<MARK_SUNDAYS_AS_HOLY, cal, input, pos, calls, arg, res>>

NextMain == SkipEvent \/ RewriteEvent \/ WriteOutput

(* The state of main after Calendar.from_ical, for the components cs. *)
MainStart(cs) ==
    /\ pc = "loop"
    /\ cal = cs /\ input = cs /\ pos = 1 /\ calls = <<>> /\ out = NotWritten
    /\ arg = NoCall /\ res = NoResult

-----------------------------------------------------------------------------
(* Batches: calendars of up to MaxEvents components. *)

CHRISTMAS == <<"C", "h", "r", "i", "s", "t", "m", "a", "s">>

FISH_FERIA == <<"FISH", " ", "F", "e", "r", "i", "a">>

BatchEvents ==
    { [dtstart |-> ds, summary |-> sm] :
        ds \in {Absent, DtStart(FALSE, date(2024, 3, 29)),
                DtStart(TRUE, date(2024, 12, 25))},
        sm \in {Absent, Summary(CHRISTMAS), Summary(FISH_FERIA)} }

Init ==
    /\ MARK_SUNDAYS_AS_HOLY = FALSE
    /\ \E n \in 0..MaxEvents : \E cs \in [1..n -> BatchEvents] : MainStart(cs)

Next == NextMain

Spec == Init /\ [][Next]_vars

-----------------------------------------------------------------------------
(* One event on each date of Years, with a holy-day title and another. *)

FERIA == <<"F", "e", "r", "i", "a">>

InitDates ==
    /\ MARK_SUNDAYS_AS_HOLY = FALSE
    /\ \/ \E y \in Years, m \in 1..12, d \in 1..31 :
            \E t \in {CHRISTMAS, FERIA} :
               /\ is_date(date(y, m, d))
               /\ MainStart(<<[dtstart |-> DtStart(FALSE, date(y, m, d)),
                               summary |-> Summary(t)]>>)
       \/ \E t \in {CHRISTMAS, FERIA} :
               MainStart(<<[dtstart |-> Absent, summary |-> Summary(t)]>>)

SpecDates == InitDates /\ [][NextMain]_vars

-----------------------------------------------------------------------------
(* One event with a decorated title, and the direct calls of build_prefix. *)

DecorChars == {"CROSS", "VS16", "NOENTRY", "FISH", " ", "RSAQUO"}

Decors == UNION {[1..n -> DecorChars] : n \in 0..MaxDecor}

Cores ==
    { <<>>,
      <<"C", "h", "r", "i", "s", "t", "m", "a", "s">>,
      <<"A", "l", "l", " ", " ", "S", "a", "i", "n", "t", "s">>,
      <<"C", "o", "r", "p", "u", "s", " ", "C", "h", "r", "i", "s", "t", "i", "TAB">>,
      <<"F", "e", "r", "i", "a">>,
      <<"s", "t", ".", " ", "j", "o", "s", "e", "p", "h">>,
      <<"F", "e", "r", "i", "a", " ", "NOENTRY">> }

(* Ash Wednesday, a Friday outside Lent, Christmas Day on a Wednesday,
   Easter Sunday and a Vigil on a Friday. *)
TitleDates ==
    { date(2024, 2, 14), date(2024, 7, 5), date(2024, 12, 25),
      date(2024, 3, 31), date(2024, 6, 28) }

InitTitles ==
    \/ /\ MARK_SUNDAYS_AS_HOLY \in BOOLEAN
       /\ \E decor \in Decors, core \in Cores, d \in TitleDates :
             MainStart(<<[dtstart |-> DtStart(FALSE, d),
                          summary |-> Summary(decor \o core)]>>)
    \/ /\ MARK_SUNDAYS_AS_HOLY = FALSE
       /\ MainStart(<<[dtstart |-> Absent, summary |-> Absent]>>)
    \/ /\ pc = "call"
       /\ \E h \in BOOLEAN, f \in BOOLEAN, a \in BOOLEAN :
             arg = [fn |-> "flags", is_holy |-> h, is_fast |-> f, is_abst |-> a]
       /\ res = NoResult
       /\ MainIdle

CallBuildPrefix ==
    /\ pc = "call" /\ arg.fn = "flags"
    /\ res' = [fn |-> "build_prefix",
               val |-> build_prefix(arg.is_holy, arg.is_fast, arg.is_abst)]
    /\ pc' = "return"
    /\ UNCHANGED <<mainvars, arg, MARK_SUNDAYS_AS_HOLY>>

NextTitles == NextMain \/ CallBuildPrefix

SpecTitles == InitTitles /\ [][NextTitles]_vars
-----------------------------------------------------------------------------
(* The properties checked. *)

(* The prefix the three flags stand for: the markers of the true flags, in
   the order holy day, fast, abstinence. *)
MarkersOf(h, f, a) ==
    (IF h THEN <<"CROSS", "VS16">> ELSE <<>>)
        \o (IF f THEN <<"NOENTRY">> ELSE <<>>)
        \o (IF a THEN <<"FISH">> ELSE <<>>)

(* The date of the event a call of build_prefix was made for. *)
DateOf(call) == input[call.idx].dtstart.ymd

(* C1: no call of build_prefix by main has is_holy true together with fast
   or abst true, and whenever the normalized title is a holy-day title (or
   MARK_SUNDAYS_AS_HOLY is on and the date is a Sunday) the call has fast and
   abst false, whatever penitential_marks returned for the date. *)
C1_HolyDayClearsPenance ==
    \A k \in 1..Len(calls) :
        LET c == calls[k]
            title_is_holy ==
                normalize_title(get_summary(input[c.idx]))
                    \in HOLY_DAYS_1962_TITLES
        IN  /\ c.is_holy => ~c.is_fast /\ ~c.is_abst
            /\ (title_is_holy \/ (MARK_SUNDAYS_AS_HOLY /\ is_sunday(DateOf(c))))
                   => c.is_holy /\ ~c.is_fast /\ ~c.is_abst

(* A holy-day title on a day of fast and abstinence has been classified. *)
C1_Witness ==
    \E k \in 1..Len(calls) :
        /\ calls[k].is_holy
        /\ penitential_marks(DateOf(calls[k])) = <<TRUE, TRUE>>

(* C2: for every year y in 1900..2100, easter_gregorian(y) is a date of year
   y, no earlier than March 22 and no later than April 25, and a Sunday. *)
C2_EasterInRangeOnSunday ==
    (pc = "return" /\ res.fn = "easter_gregorian" /\ arg.y \in 1900..2100) =>
        LET e == res.val
            n == toordinal(e)
        IN  /\ e[1] = arg.y
            /\ is_date(e)
            /\ (e[2] = 3 /\ e[3] >= 22) \/ (e[2] = 4 /\ e[3] <= 25)
            /\ n % 7 = 0

(* Easter of 2038 has been computed: April 25, the latest day. *)
C2_Witness ==
    /\ pc = "return" /\ res.fn = "easter_gregorian"
    /\ arg.y = 2038 /\ res.val = <<2038, 4, 25>>

(* C3: every event on a Friday that is not flagged as a holy day is passed
   to build_prefix with abstinence true. *)
C3_FridayAbstinence ==
    \A k \in 1..Len(calls) :
        (toordinal(DateOf(calls[k])) % 7 = 5 /\ ~calls[k].is_holy)
            => calls[k].is_abst

(* A Friday outside Lent, not a holy day: abstinence without fast. *)
C3_Witness ==
    \E k \in 1..Len(calls) :
        /\ DateOf(calls[k]) = <<2024, 7, 5>>
        /\ ~calls[k].is_holy /\ ~calls[k].is_fast /\ calls[k].is_abst

(* C4: for every date d that is not a Sunday, from 46 days before the Easter
   of its year to the day before it, penitential_marks(d) is <<TRUE, TRUE>>. *)
C4_LentFastAndAbstinence ==
    (pc = "return" /\ res.fn = "penitential_marks") =>
        LET d == arg.d
            e == toordinal(easter_gregorian(d[1]))
            n == toordinal(d)
        IN  (n % 7 # 0 /\ e - 46 <= n /\ n <= e - 1) => res.val = <<TRUE, TRUE>>

(* Holy Saturday of 2024, the last day of the window, has been classified. *)
C4_Witness ==
    /\ pc = "return" /\ res.fn = "penitential_marks"
    /\ arg.d = <<2024, 3, 30>> /\ res.val = <<TRUE, TRUE>>

(* C5: every member of ember_days(y) is a Wednesday, a Friday or a Saturday,
   and each of the four clusters added is the Wednesday, the Friday and the
   Saturday of one week. *)
C5_EmberWeekdays ==
    (pc = "return" /\ res.fn = "ember_days") =>
        /\ \A e \in res.val : toordinal(e) % 7 \in {3, 5, 6}
        /\ Len(res.updates) = 4
        /\ res.val = UNION {res.updates[i] : i \in 1..4}
        /\ \A i \in 1..4 :
              \E w \in res.updates[i] :
                 /\ toordinal(w) % 7 = 3
                 /\ {toordinal(e) : e \in res.updates[i]}
                        = {toordinal(w), toordinal(w) + 2, toordinal(w) + 3}

(* The ember days of 2024 have been computed. *)
C5_Witness ==
    /\ pc = "return" /\ res.fn = "ember_days" /\ arg.y = 2024
    /\ res.updates[4] = {<<2024, 9, 18>>, <<2024, 9, 20>>, <<2024, 9, 21>>}

(* C6: ember_days(y) holds exactly 12 dates, all of year y. *)
C6_TwelveEmberDays ==
    (pc = "return" /\ res.fn = "ember_days") =>
        /\ Cardinality(res.val) = 12
        /\ \A e \in res.val : e[1] = arg.y /\ is_date(e)

(* The ember days of a year whose Advent cluster is the latest possible. *)
C6_Witness ==
    /\ pc = "return" /\ res.fn = "ember_days"
    /\ <<arg.y, 12, 22>> \in res.val
    /\ Cardinality(res.val) = 12

(* C7: build_prefix returns the markers of the true flags in the order holy
   day, fast, abstinence; main sets the title to that prefix, one space and
   the symbol-stripped base title when the prefix is not empty, and to the
   base title alone when it is. *)
C7_PrefixRendering ==
    /\ (pc = "return" /\ res.fn = "build_prefix") =>
           res.val = MarkersOf(arg.is_holy, arg.is_fast, arg.is_abst)
    /\ \A k \in 1..Len(calls) :
           LET c      == calls[k]
               prefix == MarkersOf(c.is_holy, c.is_fast, c.is_abst)
               base   == strip(SYM_STRIP_RE_sub(strip(get_summary(input[c.idx]))))
           IN  /\ cal[c.idx].summary.present
               /\ cal[c.idx].summary.text =
                      IF prefix = <<>> THEN base ELSE prefix \o <<" ">> \o base

(* A title has been rewritten with the fast and abstinence markers, and the
   markers it carried before are gone. *)
C7_Witness ==
    \E k \in 1..Len(calls) :
        /\ calls[k].is_fast /\ calls[k].is_abst
        /\ input[calls[k].idx].summary.text = <<"FISH", " ", "F", "e", "r", "i", "a">>
        /\ cal[calls[k].idx].summary.text
               = <<"NOENTRY", "FISH", " ", "F", "e", "r", "i", "a">>

(* C8: processing the rewritten title of an event again, on the same date,
   passes the same flags to build_prefix and writes the same title. *)
C8_Idempotent ==
    \A k \in 1..Len(calls) :
        LET c     == calls[k]
            again == main_locals([dtstart |-> input[c.idx].dtstart,
                                  summary |-> cal[c.idx].summary],
                                 MARK_SUNDAYS_AS_HOLY)
        IN  /\ again.is_holy = c.is_holy
            /\ again.fast = c.is_fast
            /\ again.abst = c.is_abst
            /\ again.summary = cal[c.idx].summary.text

(* A holy-day title that came with markers has been rewritten with others. *)
C8_Witness ==
    \E k \in 1..Len(calls) :
        /\ calls[k].is_holy
        /\ Len(input[calls[k].idx].summary.text) > 0
        /\ input[calls[k].idx].summary.text[1] = "NOENTRY"
        /\ cal[calls[k].idx].summary.text # input[calls[k].idx].summary.text
        /\ cal[calls[k].idx].summary.text[1] = "CROSS"

(* C9: penitential_marks(d) is <<FALSE, FALSE>> for every Sunday d, in the
   Lenten window and on a listed Vigil too. *)
C9_SundayExempt ==
    (pc = "return" /\ res.fn = "penitential_marks" /\ toordinal(arg.d) % 7 = 0)
        => res.val = <<FALSE, FALSE>>

(* Christmas Eve of 2023, a Vigil on a Sunday, has been classified. *)
C9_Witness ==
    /\ pc = "return" /\ res.fn = "penitential_marks"
    /\ arg.d = <<2023, 12, 24>> /\ arg.d \in vigil_days(2023)
    /\ res.val = <<FALSE, FALSE>>

(* C10: an event without DTSTART keeps its SUMMARY and does not stop the
   walk: every event with a DTSTART that the walk has passed is classified and
   rewritten, the walk goes on until it has passed every event, and then the
   output is written with all of them. *)
C10_SkipWithoutAbort ==
    /\ Len(cal) = Len(input)
    /\ \A i \in 1..Len(cal) :
           ~input[i].dtstart.present => cal[i] = input[i]
    /\ \A i \in 1..Len(cal) :
           (i < pos /\ input[i].dtstart.present) =>
               /\ \E k \in 1..Len(calls) : calls[k].idx = i
               /\ cal[i].summary
                      = Summary(main_locals(input[i], MARK_SUNDAYS_AS_HOLY).summary)
    /\ pc \in {"loop", "done"} /\ pos \in 1..Len(cal) + 1
    /\ pc = "done" =>
           /\ pos = Len(cal) + 1
           /\ out = [written |-> TRUE, components |-> cal]

(* A calendar whose second event has no DTSTART has been written, with the
   events before and after it rewritten. *)
C10_Witness ==
    /\ pc = "done" /\ Len(input) = 3
    /\ input[1].dtstart.present /\ ~input[2].dtstart.present
    /\ input[3].dtstart.present
    /\ out.components[1].summary # input[1].summary
    /\ out.components[2] = input[2]
    /\ out.components[3].summary # input[3].summary

=============================================================================
